---- MODULE Spec2Model ----
(***************************************************************************)
(* A model of Streamlit_dashboard.py: the portfolio dashboard script.      *)
(*                                                                         *)
(* The script is re-executed from top to bottom after every widget         *)
(* interaction.  The state is the loaded table, the values the widgets     *)
(* hold and what the last execution put on the page.  Every action is one  *)
(* widget interaction followed by the whole re-execution of the script.    *)
(*                                                                         *)
(* Numbers: the script computes with Python floats and numpy float64, that *)
(* is with IEEE 754 doubles; the model computes with the same doubles, bit *)
(* for bit, every operation rounding to the nearest double, ties to even.  *)
(* Text: a Python str is a sequence of one-character strings.              *)
(***************************************************************************)
EXTENDS Integers, Sequences, FiniteSets, TLC

VARIABLES
    df,                  \* the loaded table: [columns, index, w]
    selected_date,       \* summary date slider
    pie_date,            \* pie chart date slider
    table_date,          \* allocation table date slider
    drift_date,          \* drift monitor date slider
    drift_band,          \* drift monitor band slider, in thousandths
    trade_date,          \* trade suggestions date slider
    drift_band_trade,    \* trade band slider, in thousandths
    portfolio_val_trade, \* number input, whole dollars
    page                 \* what the last execution put on the page:
                         \*   rendered: the sections it reached
                         \*   needs_rebal: the summary's "Needs Rebalance" flag
                         \*   colours: the drift monitor's colour per bar
                         \*   buy_actions, sell_actions: the trade lines
                         \*   download: whether the download button is offered
                         \*   combined_actions: the text the button serves

widgets == <<selected_date, pie_date, table_date, drift_date, drift_band,
             trade_date, drift_band_trade, portfolio_val_trade>>
vars == <<df, widgets, page>>

----------------------------------------------------------------------------
(* Bounds of the model *)

\* dates are day numbers 1..MaxDay
MaxDay == 3
\* clicks of the number input's +/- buttons away from its default
MaxSteps == 1

----------------------------------------------------------------------------
(* Natural numbers of any size: limbs of 15 bits, least significant first, *)
(* no zero limb at the top; <<>> is 0.                                     *)

Abs(x) == IF x < 0 THEN -x ELSE x

Base == 2^15

RECURSIVE BFromInt(_)
BFromInt(n) == IF n = 0 THEN <<>> ELSE <<n % Base>> \o BFromInt(n \div Base)

RECURSIVE BTrim(_)
BTrim(a) == IF a = <<>> \/ a[Len(a)] # 0 THEN a
            ELSE BTrim(SubSeq(a, 1, Len(a) - 1))

RECURSIVE BAddC(_, _, _)
BAddC(a, b, c) ==
    IF a = <<>> /\ b = <<>> THEN (IF c = 0 THEN <<>> ELSE <<c>>)
    ELSE LET x == (IF a = <<>> THEN 0 ELSE a[1]) + (IF b = <<>> THEN 0 ELSE b[1]) + c
         IN <<x % Base>> \o BAddC(IF a = <<>> THEN a ELSE Tail(a),
                                  IF b = <<>> THEN b ELSE Tail(b), x \div Base)
\* a + b
BAdd(a, b) == BAddC(a, b, 0)

RECURSIVE BSubC(_, _, _)
BSubC(a, b, c) ==
    IF a = <<>> THEN <<>>
    ELSE LET x == a[1] - (IF b = <<>> THEN 0 ELSE b[1]) - c
         IN <<x % Base>> \o BSubC(Tail(a), IF b = <<>> THEN b ELSE Tail(b),
                                  IF x < 0 THEN 1 ELSE 0)
\* a - b, for a >= b
BSub(a, b) == BTrim(BSubC(a, b, 0))

RECURSIVE BCmpAt(_, _, _)
BCmpAt(a, b, i) ==
    IF i = 0 THEN 0
    ELSE IF a[i] < b[i] THEN -1
    ELSE IF a[i] > b[i] THEN 1
    ELSE BCmpAt(a, b, i - 1)
\* -1, 0, 1 as a < b, a = b, a > b
BCmp(a, b) ==
    IF Len(a) < Len(b) THEN -1
    ELSE IF Len(a) > Len(b) THEN 1
    ELSE BCmpAt(a, b, Len(a))

RECURSIVE BMulSmallC(_, _, _)
BMulSmallC(a, k, c) ==
    IF a = <<>> THEN BFromInt(c)
    ELSE LET x == a[1] * k + c
         IN <<x % Base>> \o BMulSmallC(Tail(a), k, x \div Base)
\* a * k, for 0 <= k < Base
BMulSmall(a, k) == BTrim(BMulSmallC(a, k, 0))

RECURSIVE BMul(_, _)
BShifted(a) == IF a = <<>> THEN a ELSE <<0>> \o a
\* a * b
BMul(a, b) ==
    IF a = <<>> \/ b = <<>> THEN <<>>
    ELSE BAdd(BMulSmall(a, b[1]), BShifted(BMul(a, Tail(b))))

\* a * 2^k
BShl(a, k) ==
    IF a = <<>> THEN a
    ELSE [i \in 1..(k \div 15) |-> 0] \o BMulSmall(a, 2^(k % 15))

RECURSIVE BDivAt(_, _, _, _)
BDivStep(rest, d, limb) ==
    [q |-> <<(rest.r * Base + limb) \div d>> \o rest.q,
     r |-> (rest.r * Base + limb) % d]
BDivAt(a, d, i, r) ==
    IF i > Len(a) THEN [q |-> <<>>, r |-> r]
    ELSE BDivStep(BDivAt(a, d, i + 1, r), d, a[i])
BTrimQuot(res) == [q |-> BTrim(res.q), r |-> res.r]
\* a divided by d, for 0 < d <= Base: the quotient q and the remainder r
BDivSmall(a, d) == BTrimQuot(BDivAt(a, d, 1, 0))

\* floor(a / 2^k)
BShr(a, k) ==
    IF k \div 15 >= Len(a) THEN <<>>
    ELSE BDivSmall(SubSeq(a, (k \div 15) + 1, Len(a)), 2^(k % 15)).q

RECURSIVE BitLen(_)
BitLen(x) == IF x = 0 THEN 0 ELSE 1 + BitLen(x \div 2)
\* the number of bits of a
BBits(a) == IF a = <<>> THEN 0 ELSE 15 * (Len(a) - 1) + BitLen(a[Len(a)])

BIsOdd(a) == a # <<>> /\ a[1] % 2 = 1

----------------------------------------------------------------------------
(* Doubles: [s, m, e] is the number s * m * 2^e, s 1 or -1, m of exactly   *)
(* 53 bits; zero is [1, <<>>, 0].  The numbers of the script stay far from *)
(* both ends of the range of a double, so there are no infinities, NaNs or *)
(* subnormals here.                                                        *)

FZero == [s |-> 1, m |-> <<>>, e |-> 0]

\* c is -1, 0, 1 as the dropped part is below, at, above a half of the last
\* place kept; q is what is kept: round to nearest, a tie to even
RoundsUp(c, q, sticky) == c > 0 \/ (c = 0 /\ (sticky \/ BIsOdd(q)))

\* a / 2^k to the nearest whole number, q being floor(a / 2^k)
Nearest(a, q, k, sticky) ==
    IF RoundsUp(BCmp(BSub(a, BShl(q, k)), BShl(<<1>>, k - 1)), q, sticky)
    THEN BAdd(q, <<1>>)
    ELSE q

\* s * q * 2^e, q of 53 bits or, after a carry, of 54
Carried(s, q, e) ==
    IF BBits(q) > 53 THEN [s |-> s, m |-> BShr(q, 1), e |-> e + 1]
    ELSE [s |-> s, m |-> q, e |-> e]

\* s * a * 2^e for a of n bits
RoundBits(s, a, e, n, sticky) ==
    IF n = 0 THEN FZero
    ELSE IF n <= 53 THEN [s |-> s, m |-> BShl(a, 53 - n), e |-> e - (53 - n)]
    ELSE Carried(s, Nearest(a, BShr(a, n - 53), n - 53, sticky), e + (n - 53))

\* s * a * 2^e (and, when sticky, a little more) rounded to the nearest
\* double, a tie to the even mantissa
RoundBig(s, a, e, sticky) == RoundBits(s, a, e, BBits(a), sticky)

FIsZero(a) == a.m = <<>>
FSign(a) == IF FIsZero(a) THEN 0 ELSE a.s
\* -a
FNeg(a) == IF FIsZero(a) THEN a ELSE [a EXCEPT !.s = -a.s]
\* abs(a)
FAbs(a) == [a EXCEPT !.s = 1]

\* float(n) of an int n
FFromInt(n) == RoundBig(IF n < 0 THEN -1 ELSE 1, BFromInt(Abs(n)), 0, FALSE)

RoundQuot(qr) == RoundBig(1, qr.q, -75, qr.r # 0)
\* n / d of two ints, n >= 0 and 0 < d <= Base; also the double a decimal
\* literal or a decimal field of the file stands for
FRatio(n, d) == RoundQuot(BDivSmall(BShl(BFromInt(n), 75), d))

\* x * 2^e - y * 2^e under the signs sa and sb, c the order of x and y
SubAligned(sa, sb, x, y, c, e) ==
    RoundBig(IF sa # sb \/ c >= 0 THEN sa ELSE -sa,
             IF sa # sb THEN BAdd(x, y)
             ELSE IF c >= 0 THEN BSub(x, y) ELSE BSub(y, x),
             e, FALSE)

SubShifted(sa, sb, x, y, e) == SubAligned(sa, sb, x, y, BCmp(x, y), e)

SubAt(a, b, e) == SubShifted(a.s, b.s, BShl(a.m, a.e - e), BShl(b.m, b.e - e), e)

\* a - b
FSub(a, b) ==
    IF FIsZero(b) THEN a
    ELSE IF FIsZero(a) THEN FNeg(b)
    ELSE SubAt(a, b, IF a.e < b.e THEN a.e ELSE b.e)

\* a * b
FMul(a, b) ==
    IF FIsZero(a) \/ FIsZero(b) THEN FZero
    ELSE RoundBig(a.s * b.s, BMul(a.m, b.m), a.e + b.e, FALSE)

\* -1, 0, 1 as a < b, a = b, a > b
FCmp(a, b) ==
    IF FSign(a) # FSign(b) THEN (IF FSign(a) < FSign(b) THEN -1 ELSE 1)
    ELSE IF FIsZero(a) THEN 0
    ELSE IF a.e # b.e THEN (IF a.e < b.e THEN -a.s ELSE a.s)
    ELSE a.s * BCmp(a.m, b.m)
FGt(a, b) == FCmp(a, b) > 0
FGe(a, b) == FCmp(a, b) >= 0
FLt(a, b) == FCmp(a, b) < 0

----------------------------------------------------------------------------
(* Text *)

UpperCase == <<"A","B","C","D","E","F","G","H","I","J","K","L","M",
               "N","O","P","Q","R","S","T","U","V","W","X","Y","Z">>
LowerCase == <<"a","b","c","d","e","f","g","h","i","j","k","l","m",
               "n","o","p","q","r","s","t","u","v","w","x","y","z">>

\* the lower-case form of every character that has one
LowerTable ==
    [c \in {UpperCase[i] : i \in 1..26} |->
        LowerCase[CHOOSE i \in 1..26 : UpperCase[i] = c]]

LowerChar(c) == IF c \in DOMAIN LowerTable THEN LowerTable[c] ELSE c

RECURSIVE MapLower(_, _)
MapLower(s, i) ==
    IF i > Len(s) THEN <<>> ELSE <<LowerChar(s[i])>> \o MapLower(s, i + 1)

\* str.lower()
Lower(s) == MapLower(s, 1)

RECURSIVE Join(_, _)
\* sep.join(lines)
Join(lines, sep) ==
    IF lines = <<>> THEN <<>>
    ELSE IF Len(lines) = 1 THEN lines[1]
    ELSE lines[1] \o sep \o Join(Tail(lines), sep)

DigitChar(k) == <<"0","1","2","3","4","5","6","7","8","9">>[k + 1]

RECURSIVE BDigits(_)
DigitsOf(qr) ==
    IF qr.q = <<>> THEN <<DigitChar(qr.r)>>
    ELSE BDigits(qr.q) \o <<DigitChar(qr.r)>>
\* the decimal digits of a natural number
BDigits(a) == DigitsOf(BDivSmall(a, 10))

RECURSIVE Grouped(_)
\* the "," option of the format spec: a comma before every group of three
Grouped(ds) ==
    IF Len(ds) <= 3 THEN ds
    ELSE Grouped(SubSeq(ds, 1, Len(ds) - 3)) \o <<",">>
         \o SubSeq(ds, Len(ds) - 2, Len(ds))

RECURSIVE ZeroPad(_, _)
ZeroPad(ds, width) == IF Len(ds) >= width THEN ds
                      ELSE ZeroPad(<<"0">> \o ds, width)

\* a * 2^e to the nearest whole number
ScaledAt(a, e) == IF e >= 0 THEN BShl(a, e) ELSE Nearest(a, BShr(a, -e), -e, FALSE)

\* x * 10^places, for a double x >= 0, rounded to an integer, a tie to the
\* even one: the digits the "f" presentation writes
Scaled(x, places) == ScaledAt(BMulSmall(x.m, 10^places), x.e)

\* the digits with the point before the last `places` of them
Pointed(ds, places) ==
    Grouped(SubSeq(ds, 1, Len(ds) - places))
    \o (IF places = 0 THEN <<>>
        ELSE <<".">> \o SubSeq(ds, Len(ds) - places + 1, Len(ds)))

\* f"{x:,.<places>f}" of a double x >= 0
FormatFixed(x, places) ==
    Pointed(ZeroPad(BDigits(Scaled(x, places)), places + 1), places)

----------------------------------------------------------------------------
(* The loaded table *)

AAA == <<"A","A","A">>
BBB == <<"B","B","B">>
CCC == <<"C","C","C">>
Cash == <<"C","a","s","h">>
CASH == <<"C","A","S","H">>
cash == <<"c","a","s","h">>

RECURSIVE SortedSeq(_)
\* sorted(...) of a set of dates
SortedSeq(S) ==
    IF S = {} THEN <<>>
    ELSE LET m == CHOOSE x \in S : \A y \in S : x <= y
         IN <<m>> \o SortedSeq(S \ {m})

\* date_list: the distinct dates of the index, ascending
date_list == SortedSeq(df.index)
\* min(date_list), max(date_list)
MinDate == CHOOSE x \in df.index : \A y \in df.index : x <= y
MaxDate == CHOOSE x \in df.index : \A y \in df.index : x >= y
\* tickers: the column names in file order
tickers == df.columns

\* the values a date slider can hold: every day from min_value to max_value
SliderDates == MinDate..MaxDate

\* df.loc[pd.to_datetime(date)]: the row of that date; KeyError if none
HasRow(date) == date \in df.index
Row(date) == [index |-> tickers, values |-> df.w[date]]

----------------------------------------------------------------------------
(* Series arithmetic *)

RECURSIVE DictValues(_, _, _)
DictValues(idx, dict, i) ==
    IF i > Len(idx) THEN <<>>
    ELSE <<dict[idx[i]]>> \o DictValues(idx, dict, i + 1)

\* pd.Series(dict): the labels in insertion order
SeriesOf(idx, dict) == [index |-> idx, values |-> DictValues(idx, dict, 1)]

RECURSIVE SubValues(_, _, _)
SubValues(a, b, i) ==
    IF i > Len(a.index) THEN <<>>
    ELSE LET j == CHOOSE k \in 1..Len(b.index) : b.index[k] = a.index[i]
         IN <<FSub(a.values[i], b.values[j])>> \o SubValues(a, b, i + 1)

\* a - b, aligned on the labels (both carry the same labels here)
SeriesSub(a, b) == [index |-> a.index, values |-> SubValues(a, b, 1)]

RECURSIVE MulValues(_, _, _)
MulValues(s, k, i) ==
    IF i > Len(s.index) THEN <<>>
    ELSE <<FMul(s.values[i], k)>> \o MulValues(s, k, i + 1)

\* s * k, k an int
SeriesMul(s, k) == [index |-> s.index, values |-> MulValues(s, FFromInt(k), 1)]

----------------------------------------------------------------------------
(* Helpers of the script *)

\* the labels of a snapshot that are not cash
NonCash(snapshot) ==
    SelectSeq(snapshot.index, LAMBDA t : Lower(t) # cash)

\* {t: (0.0 if t.lower() == "cash" else equal_wt) for t in snapshot.index}
TargetDict(idx, equal_wt) ==
    [t \in {idx[k] : k \in 1..Len(idx)} |->
        IF Lower(t) = cash THEN FZero ELSE equal_wt]

\* mutant: "cash" compared without lower()
get_equal_weight_targets_case_sensitive(snapshot) ==
    LET non_cash == SelectSeq(snapshot.index, LAMBDA t : t # cash)
        equal_wt == IF non_cash # <<>> THEN FRatio(1, Len(non_cash)) ELSE FZero
    IN [t \in {snapshot.index[k] : k \in 1..Len(snapshot.index)} |->
          IF t = cash THEN FZero ELSE equal_wt]

get_equal_weight_targets(snapshot) ==
    LET non_cash == NonCash(snapshot)
        equal_wt == IF non_cash # <<>> THEN FRatio(1, Len(non_cash)) ELSE FZero
    IN TargetDict(snapshot.index, equal_wt)

\* snapshot - pd.Series(get_equal_weight_targets(snapshot))
DriftOf(snapshot) ==
    SeriesSub(snapshot, SeriesOf(snapshot.index, get_equal_weight_targets(snapshot)))

----------------------------------------------------------------------------
(* Summary section *)

\* the threshold of the needs-rebalance test: the literal 0.02
RebalThreshold == FRatio(2, 100)

\* mutant: the threshold itself counts as beyond it
NeedsRebal_at_least(drift) ==
    \E i \in 1..Len(drift.index) : FGe(FAbs(drift.values[i]), RebalThreshold)

\* (drift.abs() > 0.02).any()
NeedsRebal(drift) ==
    \E i \in 1..Len(drift.index) : FGt(FAbs(drift.values[i]), RebalThreshold)

----------------------------------------------------------------------------
(* Drift monitor *)

\* st.slider(..., 0.0, 0.10, 0.02, step=0.005), in thousandths
BandMin == 0
BandMax == 100
BandDefault == 20
BandStep == 5
BandValues == {b \in BandMin..BandMax : (b - BandMin) % BandStep = 0}

\* the double a band slider returns: 20 is 0.02
BandTable == [b \in BandValues |-> FRatio(b, 1000)]
BandOf(b) == BandTable[b]

\* the literal 0.5
Half == FRatio(1, 2)

\* mutant: a drift exactly at the band is urgent
colour_for_at_least(val, band) ==
    LET abs_val == FAbs(val)
    IN IF FGe(val, FZero)
       THEN IF FGe(abs_val, band) THEN "firebrick"
            ELSE IF FGt(abs_val, FMul(band, Half)) THEN "tomato"
            ELSE "lightsalmon"
       ELSE IF FGe(abs_val, band) THEN "midnightblue"
            ELSE IF FGt(abs_val, FMul(band, Half)) THEN "dodgerblue"
            ELSE "lightskyblue"

colour_for(val, band) ==
    LET abs_val == FAbs(val)
    IN IF FGe(val, FZero)
       THEN IF FGt(abs_val, band) THEN "firebrick"
            ELSE IF FGt(abs_val, FMul(band, Half)) THEN "tomato"
            ELSE "lightsalmon"
       ELSE IF FGt(abs_val, band) THEN "midnightblue"
            ELSE IF FGt(abs_val, FMul(band, Half)) THEN "dodgerblue"
            ELSE "lightskyblue"

RECURSIVE ColourList(_, _, _)
ColourList(drift, band, i) ==
    IF i > Len(drift.index) THEN <<>>
    ELSE <<colour_for(drift.values[i], band)>> \o ColourList(drift, band, i + 1)

\* colours = [colour_for(v, drift_band) for v in drift]
Colours(snapshot, band) == ColourList(DriftOf(snapshot), BandOf(band), 1)

----------------------------------------------------------------------------
(* Trade suggestions *)

Str_Buy == <<"B","u","y">>
Str_Sell == <<"S","e","l","l">>

\* mutant: the amount written with two decimals
TradeLine_two_decimals(action, dv, t) ==
    action \o <<" ", "$">> \o FormatFixed(FAbs(dv), 2) \o <<" ">> \o t

\* f"{action} ${abs(dv):,.0f} {t}"
TradeLine(action, dv, t) ==
    action \o <<" ", "$">> \o FormatFixed(FAbs(dv), 0) \o <<" ">> \o t

\* mutant: a dollar drift exactly at the threshold is suggested
OverBand_at_least(dv, band, val) ==
    FGe(FAbs(dv), FMul(FFromInt(val), BandOf(band)))

\* abs(dv) > portfolio_val_trade * drift_band_trade
OverBand(dv, band, val) ==
    FGt(FAbs(dv), FMul(FFromInt(val), BandOf(band)))

\* mutant: the sign test turned round
ActionOf_flipped(dv) == IF FGt(dv, FZero) THEN Str_Buy ELSE Str_Sell

\* action = "Buy" if dv < 0 else "Sell"
ActionOf(dv) == IF FLt(dv, FZero) THEN Str_Buy ELSE Str_Sell

\* buy_actions.append(line) if action == "Buy" else sell_actions.append(line)
Filed(lists, action, line) ==
    IF action = Str_Buy THEN [lists EXCEPT !.buy = Append(@, line)]
    ELSE [lists EXCEPT !.sell = Append(@, line)]

\* the body of the loop for one item (t, dv)
Suggest(lists, t, dv, band, val) ==
    IF OverBand(dv, band, val)
    THEN Filed(lists, ActionOf(dv), TradeLine(ActionOf(dv), dv, t))
    ELSE lists

RECURSIVE TradeLoop(_, _, _, _, _)
\* the loop over dollar_drift.items(), from item i on
TradeLoop(dollar_drift, band, val, i, lists) ==
    IF i > Len(dollar_drift.index) THEN lists
    ELSE TradeLoop(dollar_drift, band, val, i + 1,
                   Suggest(lists, dollar_drift.index[i], dollar_drift.values[i],
                           band, val))

\* dollar_drift = (trade_snapshot - pd.Series(TARGET_WEIGHTS)) * portfolio_val_trade
DollarDrift(trade_snapshot, val) == SeriesMul(DriftOf(trade_snapshot), val)

\* buy_actions, sell_actions = [], []
NoTrades == [buy |-> <<>>, sell |-> <<>>]

Trades(trade_snapshot, band, val) ==
    TradeLoop(DollarDrift(trade_snapshot, val), band, val, 1, NoTrades)

\* mutant: the Sell lines first
Combined_sell_first(buy, sell) == Join(sell \o buy, <<"\n">>)

\* "\n".join(buy_actions + sell_actions)
Combined(buy, sell) == Join(buy \o sell, <<"\n">>)

----------------------------------------------------------------------------
(* One execution of the script *)

\* The sections in script order.  Each of summary, pie, table, drift and
\* trade looks its date up in the table; the first lookup that raises
\* KeyError ends the execution, and nothing after it is put on the page.
Reached(sd, pd, td, dd, trd) ==
    IF ~HasRow(sd) THEN {}
    ELSE IF ~HasRow(pd) THEN {"summary"}
    ELSE IF ~HasRow(td) THEN {"summary", "pie"}
    ELSE IF ~HasRow(dd) THEN {"summary", "pie", "table", "history"}
    ELSE IF ~HasRow(trd) THEN {"summary", "pie", "table", "history", "drift"}
    ELSE {"summary", "pie", "table", "history", "drift", "trade"}

\* what is on the page after an execution that reached these sections
Shown(reached, needs_rebal, colours, tr) ==
    [rendered         |-> reached,
     needs_rebal      |-> needs_rebal,
     colours          |-> colours,
     buy_actions      |-> tr.buy,
     sell_actions     |-> tr.sell,
     download         |-> tr.buy # <<>> \/ tr.sell # <<>>,
     combined_actions |-> IF tr.buy # <<>> \/ tr.sell # <<>>
                          THEN Combined(tr.buy, tr.sell) ELSE <<>>]

\* the sections in turn, as far as the execution reached
Sections(reached, sd, dd, db, trd, tb, val) ==
    Shown(reached,
          "summary" \in reached /\ NeedsRebal(DriftOf(Row(sd))),
          IF "drift" \in reached THEN Colours(Row(dd), db) ELSE <<>>,
          IF "trade" \in reached THEN Trades(Row(trd), tb, val) ELSE NoTrades)

\* what an execution with these widget values puts on the page
Page(sd, pd, td, dd, db, trd, tb, val) ==
    Sections(Reached(sd, pd, td, dd, trd), sd, dd, db, trd, tb, val)

\* the script runs again with the new widget values
Rerun ==
    page' = Page(selected_date', pie_date', table_date', drift_date',
                 drift_band', trade_date', drift_band_trade',
                 portfolio_val_trade')

(* Widgets *)


\* st.number_input(..., value=50_000, step=500): no min_value, no max_value
ValDefault == 50000
ValStep == 500

SetSelectedDate(d) ==
    /\ d \in SliderDates
    /\ selected_date' = d
    /\ UNCHANGED <<df, pie_date, table_date, drift_date, drift_band,
                   trade_date, drift_band_trade, portfolio_val_trade>>
    /\ Rerun

SetPieDate(d) ==
    /\ d \in SliderDates
    /\ pie_date' = d
    /\ UNCHANGED <<df, selected_date, table_date, drift_date, drift_band,
                   trade_date, drift_band_trade, portfolio_val_trade>>
    /\ Rerun

SetTableDate(d) ==
    /\ d \in SliderDates
    /\ table_date' = d
    /\ UNCHANGED <<df, selected_date, pie_date, drift_date, drift_band,
                   trade_date, drift_band_trade, portfolio_val_trade>>
    /\ Rerun

SetDriftDate(d) ==
    /\ d \in SliderDates
    /\ drift_date' = d
    /\ UNCHANGED <<df, selected_date, pie_date, table_date, drift_band,
                   trade_date, drift_band_trade, portfolio_val_trade>>
    /\ Rerun

SetDriftBand(b) ==
    /\ b \in BandValues
    /\ drift_band' = b
    /\ UNCHANGED <<df, selected_date, pie_date, table_date, drift_date,
                   trade_date, drift_band_trade, portfolio_val_trade>>
    /\ Rerun

SetTradeDate(d) ==
    /\ d \in SliderDates
    /\ trade_date' = d
    /\ UNCHANGED <<df, selected_date, pie_date, table_date, drift_date,
                   drift_band, drift_band_trade, portfolio_val_trade>>
    /\ Rerun

SetTradeBand(b) ==
    /\ b \in BandValues
    /\ drift_band_trade' = b
    /\ UNCHANGED <<df, selected_date, pie_date, table_date, drift_date,
                   drift_band, trade_date, portfolio_val_trade>>
    /\ Rerun

\* the number input: typing a value
TypePortfolioVal(v) ==
    /\ portfolio_val_trade' = v
    /\ UNCHANGED <<df, selected_date, pie_date, table_date, drift_date,
                   drift_band, trade_date, drift_band_trade>>
    /\ Rerun

\* the number input: its + and - buttons
StepPortfolioVal(sign) ==
    /\ Abs(portfolio_val_trade + sign * ValStep - ValDefault) <= MaxSteps * ValStep
    /\ portfolio_val_trade' = portfolio_val_trade + sign * ValStep
    /\ UNCHANGED <<df, selected_date, pie_date, table_date, drift_date,
                   drift_band, trade_date, drift_band_trade>>
    /\ Rerun

----------------------------------------------------------------------------
(* The tables the model loads *)

\* a weight the file writes as a whole percent, read as the nearest double
Pct(k) == FRatio(k, 100)

\* a table: its columns in file order, its dates, a weight per date and column
Table(cols, dates, weights) == [columns |-> cols, index |-> dates, w |-> weights]

\* the first run: every widget at its default, the script executed once
Start(table) ==
    /\ df = table
    /\ selected_date = MaxDate
    /\ pie_date = MaxDate
    /\ table_date = MaxDate
    /\ drift_date = MaxDate
    /\ drift_band = BandDefault
    /\ trade_date = MaxDate
    /\ drift_band_trade = BandDefault
    /\ portfolio_val_trade = ValDefault
    /\ page = Page(MaxDate, MaxDate, MaxDate, MaxDate, BandDefault,
                   MaxDate, BandDefault, ValDefault)

\* Dashboard: one portfolio of a stock and cash whose weights move with the
\* date, loaded from a file that has day 1 and day MaxDay and lacks at least
\* one of the days in between (the file has no row for a day without data).
DateSets ==
    {s \in SUBSET (1..MaxDay) : 1 \in s /\ MaxDay \in s /\ s # 1..MaxDay}

DashRow(d) == <<Pct(97 + d), Pct(3 - d)>>

DashTables ==
    {Table(<<AAA, Cash>>, s, [d \in s |-> DashRow(d)]) : s \in DateSets}

Init == \E table \in DashTables : Start(table)

Next ==
    \/ \E d \in 1..MaxDay : SetSelectedDate(d)
    \/ \E d \in 1..MaxDay : SetPieDate(d)
    \/ \E d \in 1..MaxDay : SetTableDate(d)
    \/ \E d \in 1..MaxDay : SetDriftDate(d)
    \/ \E d \in 1..MaxDay : SetTradeDate(d)
    \/ SetDriftBand(BandMax)
    \/ \E b \in {BandMin, BandMax} : SetTradeBand(b)
    \/ TypePortfolioVal(-ValStep)
    \/ \E sign \in {-1, 1} : StepPortfolioVal(sign)

Spec == Init /\ [][Next]_vars

----------------------------------------------------------------------------
(* The computations on richer tables.  The tables have two dates with the  *)
(* same row on both, and the date sliders stay where they are.             *)

RowsOf(cols, choices) == [1..Len(cols) -> choices]

SameRowTables(columnChoices, weightChoices) ==
    {Table(cols, {1, 2}, [d \in {1, 2} |-> row]) :
        cols \in columnChoices,
        row \in UNION {RowsOf(c, weightChoices) : c \in columnChoices}}

\* Drift: any of seven column lists, five weights per cell, four values of
\* the drift band.
DriftColumnChoices ==
    {<<>>, <<Cash>>, <<AAA, cash>>, <<AAA, BBB>>, <<AAA, BBB, Cash>>,
     <<CASH, BBB, AAA>>, <<BBB, CCC, AAA>>}

DriftWeightChoices == {Pct(0), Pct(2), Pct(42), Pct(50), Pct(52)}

InitDrift ==
    \E table \in SameRowTables(DriftColumnChoices, DriftWeightChoices) :
        /\ Len(table.w[1]) = Len(table.columns)
        /\ Start(table)

DriftBandInputs == {b \in BandValues : b \in {0, 20, 40, 100}}

NextDrift == \E b \in DriftBandInputs : SetDriftBand(b)

SpecDrift == InitDrift /\ [][NextDrift]_vars

\* Trade: two column lists, three weights per cell, the bands moved, the
\* number input typed into and stepped.
TradeColumnChoices == {<<BBB, CASH, AAA>>, <<BBB, CCC, AAA>>}

TradeWeightChoices == {Pct(2), Pct(42), Pct(52)}

TradeBandInputs == {b \in BandValues : b \in {0, 20, 80}}

InitTrade ==
    \E table \in SameRowTables(TradeColumnChoices, TradeWeightChoices) :
        /\ Len(table.w[1]) = Len(table.columns)
        /\ Start(table)

NextTrade ==
    \/ \E b \in TradeBandInputs \ {0} : SetDriftBand(b)
    \/ \E b \in TradeBandInputs : SetTradeBand(b)
    \/ \E v \in {-ValStep, 7} : TypePortfolioVal(v)
    \/ \E sign \in {-1, 1} : StepPortfolioVal(sign)

SpecTrade == InitTrade /\ [][NextTrade]_vars

----------------------------------------------------------------------------
(* Reading the state for the properties.  These definitions compare the    *)
(* doubles as the exact numbers they are, and read the trade lines back    *)
(* from their text; none of them is used by the model of the script.       *)

\* a label is cash when it is one of the sixteen spellings of "cash"
IsCashName(t) ==
    /\ Len(t) = 4
    /\ t[1] \in {"c", "C"}
    /\ t[2] \in {"a", "A"}
    /\ t[3] \in {"s", "S"}
    /\ t[4] \in {"h", "H"}

Labels == {df.columns[i] : i \in 1..Len(df.columns)}
NumNonCash == Cardinality({i \in 1..Len(df.columns) : ~IsCashName(df.columns[i])})

\* -1, 0, 1 as |a| < |b|, |a| = |b|, |a| > |b|, both brought to one exponent
MagCmp(a, b) ==
    LET e == IF a.e < b.e THEN a.e ELSE b.e
    IN BCmp(BShl(a.m, a.e - e), BShl(b.m, b.e - e))

IsNegative(a) == a.m # <<>> /\ a.s = -1
IsPositive(a) == a.m # <<>> /\ a.s = 1
Twice(a) == [a EXCEPT !.e = a.e + 1]

\* |x - y| of two natural numbers
BDist(x, y) == IF BCmp(x, y) >= 0 THEN BSub(x, y) ELSE BSub(y, x)

\* f is the double nearest to 1/n: |f * n - 1| <= n half units of f's last place
IsNearestReciprocal(f, n) ==
    /\ f.s = 1
    /\ BBits(f.m) = 53
    /\ f.e < 0
    /\ BCmp(BShl(BDist(BMulSmall(f.m, n), BShl(<<1>>, -f.e)), 1), BFromInt(n)) <= 0


RECURSIVE ExactSum(_, _)
\* 2^80 times the sum of a mapping's values (none negative) over a
\* list of its keys, with no rounding
ExactSum(dict, keys) ==
    IF keys = <<>> THEN <<>>
    ELSE BAdd(BShl(dict[Head(keys)].m, dict[Head(keys)].e + 80),
              ExactSum(dict, Tail(keys)))

\* the whole number n is within a half of |x|
WithinHalf(n, x) ==
    LET k == IF x.e < 0 THEN -x.e ELSE 0
    IN BCmp(BShl(BDist(BShl(BFromInt(n), k), BShl(x.m, x.e + k)), 1),
            BShl(<<1>>, k)) <= 0

\* x is a whole number
IsWhole(x) == x.e >= 0 \/ BShl(BShr(x.m, -x.e), -x.e) = x.m

\* the target of column i: 0 for cash, 1/N for the others
TargetOf(i) == IF IsCashName(df.columns[i]) THEN FZero ELSE FRatio(1, NumNonCash)
\* the drift of column i on a date: current - target
DriftAt(date, i) == FSub(df.w[date][i], TargetOf(i))
\* |v| > b, |v| = b, |v| > 0.5 b
Beyond(v, b) == MagCmp(v, b) > 0
AtBand(v, b) == MagCmp(v, b) = 0
BeyondHalf(v, b) == MagCmp(Twice(v), b) > 0

RECURSIVE SplitOn(_, _)
\* the fields of a text between occurrences of a separator character
SplitOn(s, sep) ==
    IF \A i \in 1..Len(s) : s[i] # sep THEN <<s>>
    ELSE LET k == CHOOSE i \in 1..Len(s) :
                     s[i] = sep /\ \A j \in 1..(i - 1) : s[j] # sep
         IN <<SubSeq(s, 1, k - 1)>> \o SplitOn(SubSeq(s, k + 1, Len(s)), sep)

IsDigit(c) == c \in {"0", "1", "2", "3", "4", "5", "6", "7", "8", "9"}
DigitVal(c) == CHOOSE k \in 0..9 : DigitChar(k) = c

RECURSIVE NumberOf(_)
\* the number a sequence of digits writes
NumberOf(ds) == IF ds = <<>> THEN 0
                ELSE 10 * NumberOf(SubSeq(ds, 1, Len(ds) - 1)) + DigitVal(ds[Len(ds)])

\* digits in groups of three from the right, a comma between the groups,
\* no leading zero but in "0"
IsGroupedNumber(text) ==
    /\ text # <<>>
    /\ \A i \in 1..Len(text) :
          IF (Len(text) - i) % 4 = 3 THEN text[i] = "," ELSE IsDigit(text[i])
    /\ text[1] # ","
    /\ (text[1] = "0" => Len(text) = 1)

WithoutCommas(text) == SelectSeq(text, LAMBDA c : c # ",")

\* "<Action> $<amount> <Ticker>"
LineFields(line) == SplitOn(line, " ")
IsTradeLine(line) ==
    /\ Len(LineFields(line)) = 3
    /\ LineFields(line)[1] \in {Str_Buy, Str_Sell}
    /\ Len(LineFields(line)[2]) >= 2
    /\ LineFields(line)[2][1] = "$"
LineAction(line) == LineFields(line)[1]
LineAmount(line) == Tail(LineFields(line)[2])
LineTicker(line) == LineFields(line)[3]

AllLines == page.buy_actions \o page.sell_actions
BuyTickers == {LineTicker(page.buy_actions[k]) : k \in 1..Len(page.buy_actions)}
SellTickers == {LineTicker(page.sell_actions[k]) : k \in 1..Len(page.sell_actions)}
\* the column a line is about
ColumnOf(line) == CHOOSE i \in 1..Len(df.columns) : df.columns[i] = LineTicker(line)

\* the dollar drift of column i in the trade section: (current - target) * V
DollarAt(i) == FMul(DriftAt(trade_date, i), FFromInt(portfolio_val_trade))
\* band * V
BandDollars == FMul(FFromInt(portfolio_val_trade), BandOf(drift_band_trade))
\* |dollar drift| > band * V, for V > 0
OverThreshold(i) == MagCmp(DollarAt(i), BandDollars) > 0

TradeShown == "trade" \in page.rendered
DriftShown == "drift" \in page.rendered
SummaryShown == "summary" \in page.rendered

----------------------------------------------------------------------------
(* C1 *)

\* C1: for every snapshot of the table, get_equal_weight_targets returns a
\* mapping whose keys are exactly the snapshot's labels, in which every
\* label that is "cash" in any spelling maps to 0 and every other label to
\* 1/N as a double, N the number of non-cash labels; so the targets sum to
\* 1 when N >= 1, up to the rounding of 1/N (at most 2^-54 per label), and
\* to 0 when N = 0, and every target is a number (no division by zero).
C1_EqualWeightTargets ==
    \A date \in df.index :
        LET tw == get_equal_weight_targets(Row(date))
        IN /\ DOMAIN tw = Labels
           /\ \A t \in Labels :
                 /\ IsCashName(t) => tw[t] = FZero
                 /\ ~IsCashName(t) => IsNearestReciprocal(tw[t], NumNonCash)
           /\ IF NumNonCash = 0 THEN ExactSum(tw, df.columns) = <<>>
              ELSE BCmp(BShl(BDist(ExactSum(tw, df.columns), BShl(<<1>>, 80)), 54),
                        BMulSmall(BShl(<<1>>, 80), NumNonCash)) <= 0

\* the summary was computed for a table with "CASH" in capitals among two
\* other columns
C1_Witness ==
    /\ SummaryShown
    /\ df.columns = <<CASH, BBB, AAA>>
    /\ get_equal_weight_targets(Row(selected_date))[CASH] = FZero
    /\ get_equal_weight_targets(Row(selected_date))[AAA] = Half

----------------------------------------------------------------------------
(* C3 *)

\* the colour of each tier, as the legend names them
SellUrgent == "firebrick"
SellWatch == "tomato"
SellMinor == "lightsalmon"
BuyUrgent == "midnightblue"
BuyWatch == "dodgerblue"
BuyMinor == "lightskyblue"

\* the tier of a drift v under a band b
TierOf(v, b) ==
    IF ~IsNegative(v)
    THEN IF Beyond(v, b) THEN SellUrgent
         ELSE IF BeyondHalf(v, b) THEN SellWatch ELSE SellMinor
    ELSE IF Beyond(v, b) THEN BuyUrgent
         ELSE IF BeyondHalf(v, b) THEN BuyWatch ELSE BuyMinor

----------------------------------------------------------------------------
(* C4 *)

\* C4 as claimed: the needs-rebalance flag is true iff some ticker's
\* |current - target| is beyond a threshold the viewer configures; the
\* dashboard's control of that name is the "Drift Threshold" slider.
C4_ThresholdConfigurable ==
    SummaryShown =>
        (page.needs_rebal <=>
            \E i \in 1..Len(df.columns) :
                Beyond(DriftAt(selected_date, i), BandOf(drift_band)))

\* C4 as amended: the needs-rebalance flag is true iff some ticker of the
\* summary's snapshot has |current - target| strictly greater than 0.02,
\* whatever the band sliders hold.
C4_ThresholdFixed ==
    SummaryShown =>
        (page.needs_rebal <=>
            \E i \in 1..Len(df.columns) :
                Beyond(DriftAt(selected_date, i), FRatio(2, 100)))

\* the flag is raised by a drift of 0.08 while the drift slider is at 0.10,
\* which no drift exceeds
C4_Witness ==
    /\ SummaryShown
    /\ page.needs_rebal
    /\ drift_band = BandMax
    /\ \A i \in 1..Len(df.columns) :
          ~Beyond(DriftAt(selected_date, i), BandOf(drift_band))

----------------------------------------------------------------------------
(* C2 *)

\* C2: with a portfolio value V > 0, the trade section has a line for
\* ticker t iff |(current[t] - target[t]) * V| > band * V, strictly; the
\* line is a Buy when the dollar drift is negative and a Sell when it is
\* positive, its amount is the absolute dollar drift (as the line writes
\* it, in whole dollars), and no ticker is in both lists.
C2_TradeSuggestions ==
    (TradeShown /\ portfolio_val_trade > 0) =>
        /\ \A k \in 1..Len(AllLines) :
              IsTradeLine(AllLines[k]) /\ LineTicker(AllLines[k]) \in Labels
        /\ \A i \in 1..Len(df.columns) :
              LET t == df.columns[i]
              IN /\ OverThreshold(i) <=> t \in BuyTickers \cup SellTickers
                 /\ t \in BuyTickers => IsNegative(DollarAt(i))
                 /\ t \in SellTickers => IsPositive(DollarAt(i))
        /\ BuyTickers \cap SellTickers = {}
        /\ \A k \in 1..Len(page.buy_actions) :
              LineAction(page.buy_actions[k]) = Str_Buy
        /\ \A k \in 1..Len(page.sell_actions) :
              LineAction(page.sell_actions[k]) = Str_Sell
        /\ \A k \in 1..Len(AllLines) :
              WithinHalf(NumberOf(WithoutCommas(LineAmount(AllLines[k]))),
                         DollarAt(ColumnOf(AllLines[k])))

\* a Buy and a Sell are suggested while a third ticker, whose dollar drift
\* is exactly band * V, gets no line
C2_Witness ==
    /\ TradeShown
    /\ portfolio_val_trade > 0
    /\ drift_band_trade > 0
    /\ page.buy_actions # <<>>
    /\ page.sell_actions # <<>>
    /\ \E i \in 1..Len(df.columns) :
          /\ MagCmp(DollarAt(i), BandDollars) = 0
          /\ df.columns[i] \notin BuyTickers \cup SellTickers

----------------------------------------------------------------------------
(* C7 *)

\* the columns the lines of a list are about, in the order of the list
ColumnsOf(lines) == [k \in 1..Len(lines) |-> ColumnOf(lines[k])]
Ascending(ns) == \A j, k \in 1..Len(ns) : j < k => ns[j] < ns[k]

\* C7: the Buy list and the Sell list each keep their lines in the order of
\* the table's columns; the download text is the Buy lines and then the
\* Sell lines, one per text line, each emitted line exactly once.
C7_OrderAndDownload ==
    TradeShown =>
        /\ Ascending(ColumnsOf(page.buy_actions))
        /\ Ascending(ColumnsOf(page.sell_actions))
        /\ page.download <=> AllLines # <<>>
        /\ page.download => SplitOn(page.combined_actions, "\n") = AllLines

\* two Sell lines in column order, the smaller amount first, then
\* downloaded after a Buy line of a later column
C7_Witness ==
    /\ TradeShown
    /\ page.download
    /\ Len(page.buy_actions) = 1
    /\ Len(page.sell_actions) = 2
    /\ MagCmp(DollarAt(ColumnOf(page.sell_actions[1])),
              DollarAt(ColumnOf(page.sell_actions[2]))) < 0
    /\ ColumnOf(page.buy_actions[1]) > ColumnOf(page.sell_actions[1])

----------------------------------------------------------------------------
(* C9 *)

\* digits, grouped, then a point and exactly two digits
IsTwoDecimalAmount(text) ==
    /\ Len(text) >= 4
    /\ text[Len(text) - 2] = "."
    /\ IsDigit(text[Len(text) - 1])
    /\ IsDigit(text[Len(text)])
    /\ IsGroupedNumber(SubSeq(text, 1, Len(text) - 3))

\* C9 as claimed: every trade line is "<Action> $<amount> <Ticker>" with
\* the amount written with exactly two decimal places and a thousands
\* separator.
C9_TwoDecimalAmounts ==
    TradeShown =>
        \A k \in 1..Len(AllLines) :
            /\ IsTradeLine(AllLines[k])
            /\ IsTwoDecimalAmount(LineAmount(AllLines[k]))

\* C9 as amended: every trade line is "<Action> $<amount> <Ticker>", the
\* action Buy or Sell, the ticker a column of the table, and the amount the
\* absolute dollar drift rounded to the nearest whole dollar (no decimal
\* places) with a thousands separator.
C9_WholeDollarAmounts ==
    TradeShown =>
        \A k \in 1..Len(AllLines) :
            LET line == AllLines[k]
            IN /\ IsTradeLine(line)
               /\ LineTicker(line) \in Labels
               /\ IsGroupedNumber(LineAmount(line))
               /\ WithinHalf(NumberOf(WithoutCommas(LineAmount(line))),
                             DollarAt(ColumnOf(line)))

\* a line whose amount has a thousands separator and stands for a dollar
\* drift that is no whole number of dollars
C9_Witness ==
    /\ TradeShown
    /\ \E k \in 1..Len(AllLines) :
          /\ \E j \in 1..Len(LineAmount(AllLines[k])) :
                LineAmount(AllLines[k])[j] = ","
          /\ ~IsWhole(DollarAt(ColumnOf(AllLines[k])))

----------------------------------------------------------------------------
(* C10 *)

\* C10: when the drift monitor and the trade section show the same date
\* under the same band, and V > 0, a ticker has a Sell line iff its bar is
\* sell-side urgent, a Buy line iff its bar is buy-side urgent, and no line
\* iff its bar is watch or minor.
C10_TradesAgreeWithTiers ==
    (/\ DriftShown /\ TradeShown
     /\ drift_date = trade_date
     /\ drift_band = drift_band_trade
     /\ portfolio_val_trade > 0) =>
        \A i \in 1..Len(df.columns) :
            LET t == df.columns[i]
            IN /\ t \in SellTickers <=> page.colours[i] = SellUrgent
               /\ t \in BuyTickers <=> page.colours[i] = BuyUrgent
               /\ t \notin BuyTickers \cup SellTickers <=>
                     page.colours[i] \in {SellWatch, SellMinor, BuyWatch, BuyMinor}

----------------------------------------------------------------------------
(* C5, C6, C8: the dashboard as a whole *)

AllSections == {"summary", "pie", "table", "history", "drift", "trade"}

\* C5: each of the five date controls holds a date of the table, so every
\* snapshot lookup finds its row and the execution reaches every section.
C5_DatesAreTableDates ==
    /\ {selected_date, pie_date, table_date, drift_date, trade_date} \subseteq df.index
    /\ page.rendered = AllSections

\* C6: the trade computation runs with 0 <= band <= 0.10 and a portfolio
\* value >= 0.
C6_TradeInputsInRange ==
    TradeShown =>
        /\ BandMin <= drift_band_trade
        /\ drift_band_trade <= BandMax
        /\ portfolio_val_trade >= 0

\* what a section shows: nothing when the execution did not reach it
SummaryOutput == IF SummaryShown THEN <<page.needs_rebal>> ELSE <<>>
DriftOutput == IF DriftShown THEN <<page.colours>> ELSE <<>>
TradeOutput ==
    IF TradeShown
    THEN <<page.buy_actions, page.sell_actions, page.download, page.combined_actions>>
    ELSE <<>>

\* C8: an interaction that leaves a section's own controls alone leaves that
\* section's output alone: the summary depends only on the summary date,
\* the drift monitor only on the drift date and the drift band, the trade
\* suggestions only on the trade date, the trade band and the portfolio
\* value.
C8_SectionsIndependent ==
    [][/\ selected_date' = selected_date => SummaryOutput' = SummaryOutput
       /\ (drift_date' = drift_date /\ drift_band' = drift_band) =>
             DriftOutput' = DriftOutput
       /\ (/\ trade_date' = trade_date
           /\ drift_band_trade' = drift_band_trade
           /\ portfolio_val_trade' = portfolio_val_trade) =>
             TradeOutput' = TradeOutput]_vars

====
